---- MODULE Spec2Model ----
(***************************************************************************)
(* A model of billy_client/api.py: the BillyAPI client, the Resource       *)
(* wrapper and its four entity classes, and the HTTP requests they issue.  *)
(* One action per public operation; the HTTP server is the environment and *)
(* answers every request with a response drawn from a small set.           *)
(***************************************************************************)
EXTENDS Integers, Sequences, FiniteSets, TLC

VARIABLES api_key, endpoint, resources, last

vars == <<api_key, endpoint, resources, last>>

(***************************************************************************)
(* Bounds of the model.                                                    *)
(***************************************************************************)
\* wrappers the caller keeps a reference to
MaxResources == 1
\* non-empty pages a list call is served before the empty page
MaxPages == 2

(***************************************************************************)
(* Python values.  A value is its type name and its text.                  *)
(***************************************************************************)
None == [t |-> "NoneType", v |-> "None"]
U(s) == [t |-> "unicode", v |-> s]
I(s) == [t |-> "int", v |-> s]
B(s) == [t |-> "bool", v |-> s]
D(s) == [t |-> "datetime", v |-> s]

True == B("True")
False == B("False")

\* bool(x): the truth value Python's `if x:` tests
Truthy(x) ==
    CASE x.t = "NoneType" -> FALSE
      [] x.t = "bool" -> x.v = "True"
      [] x.t = "int" -> x.v # "0"
      [] x.t = "unicode" -> x.v # ""
      [] OTHER -> TRUE

\* int(x) for a bool or an int
PyInt(x) ==
    CASE x.t = "bool" -> I(IF x.v = "True" THEN "1" ELSE "0")
      [] OTHER -> I(x.v)

\* str(x): the text of the value, as a string
PyStr(x) == U(x.v)

\* '{}'.format(x): the text that lands in a formatted path
Format(x) == x.v

\* datetime.isoformat()
isoformat(d) ==
    CASE d.v = "utcnow" -> U("2013-08-16T00:00:00")
      [] OTHER -> U("1970-01-01T00:00:00")

(***************************************************************************)
(* Dictionaries: functions from key strings to values.                     *)
(***************************************************************************)
EmptyDict == << >>

DictSet(d, k, val) ==
    [x \in (DOMAIN d) \cup {k} |-> IF x = k THEN val ELSE d[x]]

(***************************************************************************)
(* Inputs of the model.                                                    *)
(***************************************************************************)
Clients == {"api1"}

ProcessorKeys == {U("MOCK_PROCESSOR_KEY"), U("PROCESSOR_KEY_2")}

Guids == {U("MOCK_GUID")}

\* JSON objects the server answers with and wrappers are built from
Payloads ==
    { [guid |-> U("MOCK_GUID"), canceled |-> True],
      [api |-> U("shadowed")] }

Classes == {"Company", "Customer", "Plan", "Subscription"}

\* arguments callers pass
ExternalIds == {None, U("MOCK_BALANCED_CUSTOMER_URI")}

Intervals == {I("1"), I("123")}

PaymentUris == {None, U("MOCK_PAYMENT_URI")}

Amounts == {None, U("55.66")}

StartedAts == {None, D("utcnow")}

ProratedRefunds == {False, True}

RefundAmounts == {None, U(""), I("0"), U("123")}

\* attribute names a caller reads
AttrNames == {"guid", "canceled", "api", "json_data", "no_such_thing"}

(***************************************************************************)
(* HTTP                                                                    *)
(***************************************************************************)
codes_ok == 200
codes_not_found == 404
codes_service_unavailable == 503

DEFAULT_ENDPOINT == [origin |-> "https://billing.balancedpayments.com", path |-> << >>]

CustomEndpoint == [origin |-> "http://localhost", path |-> <<"base">>]

\* what the server answers to one request
Responses ==
    { [status_code |-> codes_ok, content |-> "", json |-> p] : p \in Payloads }
    \cup
    { [status_code |-> codes_not_found, content |-> "Not found", json |-> EmptyDict],
      [status_code |-> codes_service_unavailable, content |-> "Server error", json |-> EmptyDict] }

NoAuth == << >>

\* requests.post(url, data=data, **kwargs)
Post(url, data, auth) ==
    [method |-> "POST", url |-> url, data |-> data, params |-> EmptyDict, auth |-> auth]

\* requests.get(url, **kwargs)
Get(url, params, auth) ==
    [method |-> "GET", url |-> url, data |-> EmptyDict, params |-> params, auth |-> auth]

(***************************************************************************)
(* Exceptions                                                              *)
(***************************************************************************)
NoException == [cls |-> "none", template |-> "", method_name |-> "", status_code |-> 0, content |-> ""]

AttributeError == [cls |-> "AttributeError", template |-> "", method_name |-> "", status_code |-> 0, content |-> ""]

BillyError(method_name, resp) ==
    [cls |-> "BillyError",
     template |-> "Failed to process {} with code {}, msg {}",
     method_name |-> method_name,
     status_code |-> resp.status_code,
     content |-> resp.content]

BillyNotFoundError(method_name, resp) ==
    [cls |-> "BillyNotFoundError",
     template |-> "No such record for {} with code {}, msg{}",
     method_name |-> method_name,
     status_code |-> resp.status_code,
     content |-> resp.content]


(***************************************************************************)
(* Resource                                                                *)
(***************************************************************************)
\* Resource.__init__
Resource(cls, api, json_data) == [cls |-> cls, api |-> api, json_data |-> json_data]

\* names the class of the wrapper defines, and those it inherits from Resource
ClassAttrs(cls) ==
    {"__init__", "__unicode__", "__str__", "__getattr__"} \cup
    CASE cls = "Company" -> {"create_customer", "create_plan"}
      [] cls = "Plan" -> {"subscribe", "FREQ_DAILY", "FREQ_WEEKLY", "FREQ_MONTHLY",
                          "FREQ_YEARLY", "FREQ_ALL", "TYPE_CHARGE", "TYPE_PAYOUT", "TYPE_ALL"}
      [] cls = "Subscription" -> {"unsubscribe"}
      [] OTHER -> {}

\* a slip that lets the KeyError of the lookup escape
Resource__getattr__KeyError(res, key) ==
    IF key \in DOMAIN res.json_data
    THEN [exc |-> NoException, via |-> "__getattr__", value |-> res.json_data[key]]
    ELSE [exc |-> [AttributeError EXCEPT !.cls = "KeyError"], via |-> "__getattr__", value |-> None]

\* Resource.__getattr__: only called when the normal lookup found nothing.
\* A missing key leaves the KeyError handler evaluating `Resource. self`,
\* an attribute the class does not have: AttributeError.
Resource__getattr__(res, key) ==
    IF key \in DOMAIN res.json_data
    THEN [exc |-> NoException, via |-> "__getattr__", value |-> res.json_data[key]]
    ELSE [exc |-> AttributeError, via |-> "__getattr__", value |-> None]

\* res.key as the interpreter evaluates it: the instance and its class are
\* searched first, __getattr__ is the fallback
getattr(res, key) ==
    CASE key = "api" -> [exc |-> NoException, via |-> "__dict__", value |-> [t |-> "BillyAPI", v |-> res.api]]
      [] key = "json_data" -> [exc |-> NoException, via |-> "__dict__", value |-> [t |-> "dict", v |-> "json_data"]]
      [] key \in ClassAttrs(res.cls) -> [exc |-> NoException, via |-> "class", value |-> [t |-> "classattr", v |-> key]]
      [] OTHER -> Resource__getattr__(res, key)

(***************************************************************************)
(* BillyAPI                                                                *)
(***************************************************************************)
\* urlparse.urljoin(self.endpoint, path) for an absolute path: the path of
\* the base is replaced
_url_for(ep, path) == [origin |-> ep.origin, path |-> path]

\* a slip in the order of the pair
_auth_args_swapped(key) == <<U(""), key>>

\* a slip that sends the credential as the password too
_auth_args_password(key) == <<key, key>>

_auth_args(key) == <<key, U("")>>

\* a slip that loses the not-found branch
_check_response_generic(method_name, resp) ==
    IF resp.status_code # codes_ok
    THEN BillyError(method_name, resp)
    ELSE NoException

\* a check that knows the not-found kind only for the lookups and listings
_check_response_lookups(method_name, resp) ==
    IF resp.status_code # codes_ok
    THEN IF /\ resp.status_code = codes_not_found
            /\ method_name \in {"get_company", "get_customer", "get_plans", "get_subscriptions",
                                "list_customers", "list_plans", "list_subscriptions"}
         THEN BillyNotFoundError(method_name, resp)
         ELSE BillyError(method_name, resp)
    ELSE NoException

\* the exception _check_response raises, NoException when it returns
_check_response(method_name, resp) ==
    IF resp.status_code # codes_ok
    THEN IF resp.status_code = codes_not_found
         THEN BillyNotFoundError(method_name, resp)
         ELSE BillyError(method_name, resp)
    ELSE NoException

NoAttr == [exc |-> NoException, via |-> "none", value |-> None]

\* what one call did: the requests it issued, the answers the server had for
\* them, the exception it raised and the wrappers it returned
Call(op, api, self, args, reqs, script, exc, ret) ==
    [op |-> op, api |-> api, self |-> self, args |-> args,
     requests |-> reqs, script |-> script, exc |-> exc, ret |-> ret, attr |-> NoAttr]

\* the caller keeps the returned wrapper, or drops it
Keep(ret) ==
    \/ resources' = resources
    \/ /\ Len(ret) = 1
       /\ Len(resources) < MaxResources
       /\ resources' = resources \o ret

Init ==
    /\ api_key = [c \in Clients |-> IF c = "api1" THEN U("MOCK_API_KEY") ELSE None]
    /\ endpoint = [c \in Clients |-> IF c = "api1" THEN CustomEndpoint ELSE DEFAULT_ENDPOINT]
    /\ resources = << >>
    /\ last = Call("BillyAPI", "api1", 0, EmptyDict, << >>, << >>, NoException, << >>)

\* a slip that adopts the identifier the server returned
create_company_api_key_guid(processor_key, resp) ==
    IF "guid" \in DOMAIN resp.json THEN resp.json.guid ELSE None

\* the credential create_company adopts once the response has passed the check
create_company_api_key(processor_key, resp) == processor_key

\* a create_company that adopts the key before it has checked the response
create_company_unchecked(c, processor_key, resp) ==
    LET url == [origin |-> endpoint[c].origin, path |-> <<"v1", "companies">>]
        req == [method |-> "POST", url |-> url, data |-> [processor_key |-> processor_key],
                params |-> EmptyDict, auth |-> << >>]
        exc == IF resp.status_code = 200 THEN NoException
               ELSE IF resp.status_code = 404 THEN BillyNotFoundError("create_company", resp)
               ELSE BillyError("create_company", resp)
        ret == IF exc = NoException
               THEN <<[cls |-> "Company", api |-> c, json_data |-> resp.json]>>
               ELSE << >>
    IN /\ api_key' = [api_key EXCEPT ![c] = processor_key]
       /\ last' = [op |-> "create_company", api |-> c, self |-> 0,
                   args |-> [processor_key |-> processor_key],
                   requests |-> <<req>>, script |-> <<resp>>, exc |-> exc, ret |-> ret,
                   attr |-> NoAttr]
       /\ resources' = resources
       /\ UNCHANGED endpoint

\* BillyAPI.create_company
create_company(c, processor_key, resp) ==
    LET url == _url_for(endpoint[c], <<"v1", "companies">>)
        req == Post(url, [processor_key |-> processor_key], NoAuth)
        exc == _check_response("create_company", resp)
        ret == IF exc = NoException THEN <<Resource("Company", c, resp.json)>> ELSE << >>
    IN /\ api_key' = IF exc = NoException
                     THEN [api_key EXCEPT ![c] = create_company_api_key(processor_key, resp)]
                     ELSE api_key
       /\ last' = Call("create_company", c, 0, [processor_key |-> processor_key],
                       <<req>>, <<resp>>, exc, ret)
       /\ Keep(ret)
       /\ UNCHANGED endpoint

\* a lookup that asks once more when the first answer is a failure
_get_record_retry(c, guid, path_name, method_name, resp) ==
    LET url == [origin |-> endpoint[c].origin, path |-> <<"v1", path_name, guid.v>>]
        req == [method |-> "GET", url |-> url, data |-> EmptyDict, params |-> EmptyDict,
                auth |-> <<api_key[c], U("")>>]
        failed == resp.status_code # 200
    IN [requests |-> IF failed THEN <<req, req>> ELSE <<req>>,
        exc |-> IF ~failed THEN NoException
                ELSE IF resp.status_code = 404 THEN BillyNotFoundError(method_name, resp)
                ELSE BillyError(method_name, resp),
        ret |-> IF failed THEN << >> ELSE <<[cls |-> "Company", api |-> c, json_data |-> resp.json]>>]

\* BillyAPI._get_record
_get_record(c, guid, path_name, method_name, resp) ==
    LET url == _url_for(endpoint[c], <<"v1", path_name, Format(guid)>>)
        req == Get(url, EmptyDict, _auth_args(api_key[c]))
        exc == _check_response(method_name, resp)
        ret == IF exc = NoException THEN <<Resource("Company", c, resp.json)>> ELSE << >>
    IN [requests |-> <<req>>, exc |-> exc, ret |-> ret]

get_company(c, guid, resp) ==
    LET r == _get_record(c, guid, "companies", "get_company", resp)
    IN /\ last' = Call("get_company", c, 0, [guid |-> guid], r.requests, <<resp>>, r.exc, r.ret)
       /\ Keep(r.ret)
       /\ UNCHANGED <<api_key, endpoint>>

get_customer(c, guid, resp) ==
    LET r == _get_record(c, guid, "customers", "get_customer", resp)
    IN /\ last' = Call("get_customer", c, 0, [guid |-> guid], r.requests, <<resp>>, r.exc, r.ret)
       /\ Keep(r.ret)
       /\ UNCHANGED <<api_key, endpoint>>

get_plan(c, guid, resp) ==
    LET r == _get_record(c, guid, "plans", "get_plans", resp)
    IN /\ last' = Call("get_plan", c, 0, [guid |-> guid], r.requests, <<resp>>, r.exc, r.ret)
       /\ Keep(r.ret)
       /\ UNCHANGED <<api_key, endpoint>>

get_subscription(c, guid, resp) ==
    LET r == _get_record(c, guid, "subscriptions", "get_subscriptions", resp)
    IN /\ last' = Call("get_subscription", c, 0, [guid |-> guid], r.requests, <<resp>>, r.exc, r.ret)
       /\ Keep(r.ret)
       /\ UNCHANGED <<api_key, endpoint>>

\* a caller builds a wrapper directly: Company(api, dict(guid=...))
Resource__init__(cls, c, json_data) ==
    /\ Len(resources) < MaxResources
    /\ resources' = Append(resources, Resource(cls, c, json_data))
    /\ last' = Call("__init__", c, Len(resources) + 1, json_data, << >>, << >>, NoException, << >>)
    /\ UNCHANGED <<api_key, endpoint>>

\* the caller reads res.key
ReadAttr(i, key) ==
    /\ last' = [Call("getattr", resources[i].api, i, [key |-> U(key)], << >>, << >>,
                     getattr(resources[i], key).exc, << >>)
                EXCEPT !.attr = getattr(resources[i], key)]
    /\ UNCHANGED <<api_key, endpoint, resources>>

\* the form Company.create_customer submits
create_customer_data(external_id) ==
    LET data == EmptyDict
    IN IF external_id # None THEN DictSet(data, "external_id", external_id) ELSE data

\* Company.create_customer
create_customer(i, external_id, resp) ==
    LET self == resources[i]
        url == _url_for(endpoint[self.api], <<"v1", "customers">>)
        req == Post(url, create_customer_data(external_id), _auth_args(api_key[self.api]))
        exc == _check_response("create_customer", resp)
        ret == IF exc = NoException THEN <<Resource("Customer", self.api, resp.json)>> ELSE << >>
    IN /\ self.cls = "Company"
       /\ last' = Call("create_customer", self.api, i, [external_id |-> external_id],
                       <<req>>, <<resp>>, exc, ret)
       /\ Keep(ret)
       /\ UNCHANGED <<api_key, endpoint>>

\* the form Company.create_plan submits
create_plan_data(plan_type, frequency, amount, interval) ==
    [plan_type |-> plan_type, frequency |-> frequency,
     amount |-> amount, interval |-> interval]

\* Company.create_plan
create_plan(i, plan_type, frequency, amount, interval, resp) ==
    LET self == resources[i]
        url == _url_for(endpoint[self.api], <<"v1", "plans">>)
        req == Post(url, create_plan_data(plan_type, frequency, amount, interval),
                    _auth_args(api_key[self.api]))
        exc == _check_response("create_plan", resp)
        ret == IF exc = NoException THEN <<Resource("Plan", self.api, resp.json)>> ELSE << >>
    IN /\ self.cls = "Company"
       /\ last' = Call("create_plan", self.api, i,
                       [plan_type |-> plan_type, frequency |-> frequency,
                        amount |-> amount, interval |-> interval],
                       <<req>>, <<resp>>, exc, ret)
       /\ Keep(ret)
       /\ UNCHANGED <<api_key, endpoint>>

\* a slip that submits the optional fields whether given or not
subscribe_data_always(plan_guid, customer_guid, payment_uri, amount, started_at) ==
    LET data0 == [plan_guid |-> plan_guid, customer_guid |-> customer_guid,
                  payment_uri |-> payment_uri, amount |-> amount]
    IN IF started_at # None THEN DictSet(data0, "started_at", isoformat(started_at)) ELSE data0

\* the form Plan.subscribe submits
subscribe_data(plan_guid, customer_guid, payment_uri, amount, started_at) ==
    LET data0 == [plan_guid |-> plan_guid, customer_guid |-> customer_guid]
        data1 == IF payment_uri # None THEN DictSet(data0, "payment_uri", payment_uri) ELSE data0
        data2 == IF amount # None THEN DictSet(data1, "amount", amount) ELSE data1
    IN IF started_at # None THEN DictSet(data2, "started_at", isoformat(started_at)) ELSE data2

\* Plan.subscribe
subscribe(i, customer_guid, payment_uri, amount, started_at, resp) ==
    LET self == resources[i]
        args == [customer_guid |-> customer_guid, payment_uri |-> payment_uri,
                 amount |-> amount, started_at |-> started_at]
        url == _url_for(endpoint[self.api], <<"v1", "subscriptions">>)
        guid == getattr(self, "guid")
        data == subscribe_data(guid.value, customer_guid, payment_uri, amount, started_at)
        req == Post(url, data, _auth_args(api_key[self.api]))
        exc == _check_response("subscribe", resp)
        ret == IF exc = NoException THEN <<Resource("Subscription", self.api, resp.json)>> ELSE << >>
    IN /\ self.cls = "Plan"
       /\ IF guid.exc # NoException
          THEN \* self.guid raised before anything was sent
               /\ last' = Call("subscribe", self.api, i, args, << >>, << >>, guid.exc, << >>)
               /\ UNCHANGED resources
          ELSE /\ last' = Call("subscribe", self.api, i, args, <<req>>, <<resp>>, exc, ret)
               /\ Keep(ret)
       /\ UNCHANGED <<api_key, endpoint>>

\* a slip that submits prorated_refund whatever its value
unsubscribe_data_falsy(prorated_refund, refund_amount) ==
    LET data1 == DictSet(EmptyDict, "prorated_refund", PyStr(PyInt(prorated_refund)))
    IN IF Truthy(refund_amount) THEN DictSet(data1, "refund_amount", refund_amount) ELSE data1

\* the form Subscription.unsubscribe submits
unsubscribe_data(prorated_refund, refund_amount) ==
    LET data0 == EmptyDict
        data1 == IF Truthy(prorated_refund)
                 THEN DictSet(data0, "prorated_refund", PyStr(PyInt(prorated_refund)))
                 ELSE data0
    IN IF Truthy(refund_amount) THEN DictSet(data1, "refund_amount", refund_amount) ELSE data1

\* an unsubscribe that writes the response into the wrapper it was called on
unsubscribe_in_place(i, prorated_refund, refund_amount, resp) ==
    LET self == resources[i]
        args == [prorated_refund |-> prorated_refund, refund_amount |-> refund_amount]
        url == [origin |-> endpoint[self.api].origin,
                path |-> <<"v1", "subscriptions", self.json_data.guid.v, "cancel">>]
        req == [method |-> "POST", url |-> url,
                data |-> unsubscribe_data(prorated_refund, refund_amount),
                params |-> EmptyDict, auth |-> <<api_key[self.api], U("")>>]
        exc == IF resp.status_code = 200 THEN NoException
               ELSE IF resp.status_code = 404 THEN BillyNotFoundError("unsubscribe", resp)
               ELSE BillyError("unsubscribe", resp)
    IN /\ self.cls = "Subscription"
       /\ "guid" \in DOMAIN self.json_data
       /\ last' = [op |-> "unsubscribe", api |-> self.api, self |-> i, args |-> args,
                   requests |-> <<req>>, script |-> <<resp>>, exc |-> exc,
                   ret |-> IF exc = NoException
                           THEN <<[self EXCEPT !.json_data = resp.json]>> ELSE << >>,
                   attr |-> NoAttr]
       /\ resources' = IF exc = NoException
                       THEN [resources EXCEPT ![i].json_data = resp.json]
                       ELSE resources
       /\ UNCHANGED <<api_key, endpoint>>

\* Subscription.unsubscribe
unsubscribe(i, prorated_refund, refund_amount, resp) ==
    LET self == resources[i]
        args == [prorated_refund |-> prorated_refund, refund_amount |-> refund_amount]
        guid == getattr(self, "guid")
        url == _url_for(endpoint[self.api], <<"v1", "subscriptions", Format(guid.value), "cancel">>)
        req == Post(url, unsubscribe_data(prorated_refund, refund_amount),
                    _auth_args(api_key[self.api]))
        exc == _check_response("unsubscribe", resp)
        ret == IF exc = NoException THEN <<Resource("Subscription", self.api, resp.json)>> ELSE << >>
    IN /\ self.cls = "Subscription"
       /\ IF guid.exc # NoException
          THEN \* self.guid raised before anything was sent
               /\ last' = Call("unsubscribe", self.api, i, args, << >>, << >>, guid.exc, << >>)
               /\ UNCHANGED resources
          ELSE /\ last' = Call("unsubscribe", self.api, i, args, <<req>>, <<resp>>, exc, ret)
               /\ Keep(ret)
       /\ UNCHANGED <<api_key, endpoint>>

(***************************************************************************)
(* Listing.  The server's answers to one list call, in the order it gives  *)
(* them: pages of PageLimit items, the last non-empty one possibly short,  *)
(* then an empty page or a failure.                                        *)
(***************************************************************************)
PageLimit == 2

\* the j-th record of the collection
Item(j) == [guid |-> U(ToString(j))]

\* page number n (from 1) holding `size` items
Page(n, size) ==
    [status_code |-> codes_ok, content |-> "",
     json |-> [offset |-> (n - 1) * PageLimit, limit |-> PageLimit,
               items |-> [j \in 1..size |-> Item((n - 1) * PageLimit + j)]]]

Failure(code) ==
    [status_code |-> code, content |-> "Server error",
     json |-> [offset |-> 0, limit |-> 0, items |-> << >>]]

\* the answers of a server holding `total` records
Pages(total) ==
    LET full == total \div PageLimit
        rest == total % PageLimit
        k == full + (IF rest > 0 THEN 1 ELSE 0)
    IN [n \in 1..(k + 1) |->
          IF n <= full THEN Page(n, PageLimit)
          ELSE IF n = k THEN Page(n, rest)
          ELSE Page(n, 0)]

\* the same answers with the last one replaced by a failure
FailAtEnd(script, code) ==
    [n \in 1..Len(script) |-> IF n = Len(script) THEN Failure(code) ELSE script[n]]

Scripts ==
    UNION { {Pages(total), FailAtEnd(Pages(total), codes_not_found),
             FailAtEnd(Pages(total), codes_service_unavailable)} :
            total \in 0..(MaxPages * PageLimit) }

\* a loop that counts the items it has seen instead of using the offset
\* and limit of the previous response
RECURSIVE _list_pages_counted(_, _, _, _, _, _, _, _)
_list_pages_counted(c, path_name, method_name, cls, script, n, params, done) ==
    LET url == [origin |-> endpoint[c].origin, path |-> <<"v1", path_name>>]
        req == [method |-> "GET", url |-> url, data |-> EmptyDict, params |-> params,
                auth |-> <<api_key[c], U("")>>]
        resp == script[n]
        reqs == Append(done.requests, req)
        seen == done.ret \o [j \in 1..Len(resp.json.items) |-> [cls |-> cls, api |-> c, json_data |-> resp.json.items[j]]]
    IN IF resp.status_code # 200
       THEN [requests |-> reqs, exc |-> BillyError(method_name, resp), ret |-> << >>]
       ELSE IF resp.json.items = << >>
       THEN [requests |-> reqs, exc |-> NoException, ret |-> done.ret]
       ELSE _list_pages_counted(c, path_name, method_name, cls, script, n + 1,
                                [offset |-> Len(seen), limit |-> resp.json.limit],
                                [requests |-> reqs, ret |-> seen])

\* the page loop: one GET per answer, until an empty page or an error
RECURSIVE _list_pages(_, _, _, _, _, _, _, _)
_list_pages(c, path_name, method_name, cls, script, n, params, done) ==
    LET url == _url_for(endpoint[c], <<"v1", path_name>>)
        req == Get(url, params, _auth_args(api_key[c]))
        resp == script[n]
        exc == _check_response(method_name, resp)
        reqs == Append(done.requests, req)
    IN IF exc # NoException
       THEN [requests |-> reqs, exc |-> exc, ret |-> << >>]
       ELSE IF resp.json.items = << >>
       THEN [requests |-> reqs, exc |-> NoException, ret |-> done.ret]
       ELSE _list_pages(c, path_name, method_name, cls, script, n + 1,
                        [offset |-> resp.json.offset + resp.json.limit,
                         limit |-> resp.json.limit],
                        [requests |-> reqs,
                         ret |-> done.ret \o
                                 [j \in 1..Len(resp.json.items) |->
                                    Resource(cls, c, resp.json.items[j])]])

_list_records(c, path_name, method_name, cls, script) ==
    _list_pages(c, path_name, method_name, cls, script, 1, EmptyDict,
                [requests |-> << >>, ret |-> << >>])

list_customers(c, script) ==
    LET r == _list_records(c, "customers", "list_customers", "Customer", script)
    IN /\ last' = Call("list_customers", c, 0, EmptyDict, r.requests, script, r.exc, r.ret)
       /\ UNCHANGED <<api_key, endpoint, resources>>

list_plans(c, script) ==
    LET r == _list_records(c, "plans", "list_plans", "Plan", script)
    IN /\ last' = Call("list_plans", c, 0, EmptyDict, r.requests, script, r.exc, r.ret)
       /\ UNCHANGED <<api_key, endpoint, resources>>

list_subscriptions(c, script) ==
    LET r == _list_records(c, "subscriptions", "list_subscriptions", "Subscription", script)
    IN /\ last' = Call("list_subscriptions", c, 0, EmptyDict, r.requests, script, r.exc, r.ret)
       /\ UNCHANGED <<api_key, endpoint, resources>>

Next ==
    \/ \E c \in Clients, p \in ProcessorKeys, resp \in Responses : create_company(c, p, resp)
    \/ \E c \in Clients, g \in Guids, resp \in Responses : get_company(c, g, resp)
    \/ \E c \in Clients, g \in Guids, resp \in Responses : get_customer(c, g, resp)
    \/ \E c \in Clients, g \in Guids, resp \in Responses : get_plan(c, g, resp)
    \/ \E c \in Clients, g \in Guids, resp \in Responses : get_subscription(c, g, resp)
    \/ \E cls \in Classes, c \in Clients, p \in Payloads : Resource__init__(cls, c, p)
    \/ \E i \in DOMAIN resources, key \in AttrNames : ReadAttr(i, key)
    \/ \E i \in DOMAIN resources, e \in ExternalIds, resp \in Responses : create_customer(i, e, resp)
    \/ \E i \in DOMAIN resources, n \in Intervals, resp \in Responses :
          create_plan(i, U("charge"), U("daily"), U("55.66"), n, resp)
    \/ \E i \in DOMAIN resources, p \in PaymentUris, a \in Amounts, s \in StartedAts, resp \in Responses :
          subscribe(i, U("MOCK_CUSTOMER_GUID"), p, a, s, resp)
    \/ \E i \in DOMAIN resources, p \in ProratedRefunds, a \in RefundAmounts, resp \in Responses :
          unsubscribe(i, p, a, resp)
    \/ \E c \in Clients, script \in Scripts : list_customers(c, script)
    \/ \E c \in Clients, script \in Scripts : list_plans(c, script)
    \/ \E c \in Clients, script \in Scripts : list_subscriptions(c, script)

Spec == Init /\ [][Next]_vars

(***************************************************************************)
(* Properties                                                              *)
(***************************************************************************)
GetOps == {"get_company", "get_customer", "get_plan", "get_subscription"}

ListOps == {"list_customers", "list_plans", "list_subscriptions"}

\* the wrapper class that belongs to the collection an operation reads
WrapperOf(op) ==
    CASE op \in {"get_company"} -> "Company"
      [] op \in {"get_customer", "list_customers"} -> "Customer"
      [] op \in {"get_plan", "list_plans"} -> "Plan"
      [] op \in {"get_subscription", "list_subscriptions"} -> "Subscription"

\* the path of the collection an operation reads
CollectionOf(op) ==
    CASE op = "get_company" -> "companies"
      [] op \in {"get_customer", "list_customers"} -> "customers"
      [] op \in {"get_plan", "list_plans"} -> "plans"
      [] op \in {"get_subscription", "list_subscriptions"} -> "subscriptions"

\* C1: a get_company, get_customer, get_plan or get_subscription call that
\* is answered 200 returns one wrapper of the class of its collection
\* (Company, Customer, Plan, Subscription), holding the response's JSON
\* payload and referring back to the calling client.
C1_GetReturnsWrapperOfCollection ==
    (last.op \in GetOps /\ last.script[1].status_code = codes_ok) =>
        /\ Len(last.ret) = 1
        /\ last.ret[1].cls = WrapperOf(last.op)
        /\ last.ret[1].json_data = last.script[1].json
        /\ last.ret[1].api = last.api

\* C2: create_company(P) answered 200 with a body holding guid G returns a
\* Company whose guid reads G and whose api is the calling client, and the
\* client's api_key is then P.
C2_CreateCompanyAdoptsProcessorKey ==
    (/\ last.op = "create_company"
     /\ last.script[1].status_code = codes_ok
     /\ "guid" \in DOMAIN last.script[1].json) =>
        /\ last.exc = NoException
        /\ Len(last.ret) = 1
        /\ last.ret[1].cls = "Company"
        /\ getattr(last.ret[1], "guid").exc = NoException
        /\ getattr(last.ret[1], "guid").value = last.script[1].json.guid
        /\ last.ret[1].api = last.api
        /\ api_key[last.api] = last.args.processor_key

C2_Witness ==
    /\ last.op = "create_company"
    /\ last.script[1].status_code = codes_ok
    /\ "guid" \in DOMAIN last.script[1].json
    /\ last.args.processor_key = U("PROCESSOR_KEY_2")
    /\ api_key[last.api] = U("PROCESSOR_KEY_2")
    /\ Len(resources) = 1
    /\ resources[1] = last.ret[1]

\* C3 as stated: after a successful create_company the client's api_key is
\* the guid the server returned for the new company.
C3_CredentialIsReturnedGuid ==
    (/\ last.op = "create_company"
     /\ last.exc = NoException
     /\ "guid" \in DOMAIN last.script[1].json) =>
        api_key[last.api] = last.script[1].json.guid

\* who sends requests with the client's credential
AuthenticatedOps ==
    GetOps \cup ListOps \cup {"create_customer", "create_plan", "subscribe", "unsubscribe"}

\* C3 amended: a successful create_company(P) makes P, the processor key the
\* caller passed, the client's api_key; every authenticated request is sent
\* with the api_key of the moment as its basic-auth username; and no other
\* step replaces the api_key, so P is the username of every later call until
\* another successful create_company.
C3_CredentialIsProcessorKey ==
    [][/\ (last'.op = "create_company" /\ last'.exc = NoException) =>
              api_key'[last'.api] = last'.args.processor_key
       /\ (last'.op \in AuthenticatedOps) =>
              /\ \A n \in DOMAIN last'.requests :
                    /\ Len(last'.requests[n].auth) = 2
                    /\ last'.requests[n].auth[1] = api_key[last'.api]
              /\ api_key' = api_key
       /\ (last'.op = "create_company" /\ last'.exc # NoException) => api_key' = api_key
      ]_vars

C3_Witness ==
    /\ last.op \in AuthenticatedOps
    /\ Len(last.requests) >= 1
    /\ last.requests[1].auth = <<U("MOCK_PROCESSOR_KEY"), U("")>>
    /\ api_key[last.api] = U("MOCK_PROCESSOR_KEY")

\* C4: for get_company, get_customer, get_plan and get_subscription, a 404
\* raises BillyNotFoundError, every other status that is not 200 raises
\* BillyError itself (not the not-found subclass), and a 200 raises nothing
\* and returns one wrapper whose json_data is the response payload.
C4_GetClassifiesStatus ==
    (last.op \in GetOps) =>
        LET resp == last.script[1]
        IN /\ (resp.status_code = 404) =>
                  /\ last.exc.cls = "BillyNotFoundError"
                  /\ last.ret = << >>
           /\ (resp.status_code \notin {200, 404}) =>
                  /\ last.exc.cls = "BillyError"
                  /\ last.ret = << >>
           /\ (resp.status_code = 200) =>
                  /\ last.exc = NoException
                  /\ Len(last.ret) = 1
                  /\ last.ret[1].json_data = resp.json
                  /\ \A k \in DOMAIN resp.json :
                        Resource__getattr__(last.ret[1], k).value = resp.json[k]

C4_Witness ==
    /\ last.op = "get_subscription"
    /\ last.script[1].status_code = 503
    /\ last.exc.cls = "BillyError"

\* the number of answers of a script up to and including its first empty page
RECURSIVE FirstEmpty(_, _)
FirstEmpty(script, n) ==
    IF n > Len(script) THEN 0
    ELSE IF script[n].status_code = 200 /\ script[n].json.items = << >> THEN n
    ELSE FirstEmpty(script, n + 1)

\* the items of answers 1..n of a script, in order
RECURSIVE ItemsUpTo(_, _)
ItemsUpTo(script, n) ==
    IF n = 0 THEN << >> ELSE ItemsUpTo(script, n - 1) \o script[n].json.items

\* every answer of the script is a 200: k non-empty pages, then an empty one
ServesAllPages(script) ==
    /\ \A n \in DOMAIN script : script[n].status_code = 200
    /\ FirstEmpty(script, 1) = Len(script)

\* C5: list_customers, list_plans and list_subscriptions, served k non-empty
\* pages and then an empty page, send exactly k+1 GET requests to the
\* collection URL with the client's credential, the first without offset and
\* limit, each later one with offset = the previous response's offset + limit
\* and limit = the previous response's limit, and return the items of all
\* pages, in the server's order, as wrappers of the collection's class.
C5_ListFetchesEveryPage ==
    (last.op \in ListOps /\ ServesAllPages(last.script)) =>
        LET k == Len(last.script) - 1
        IN /\ last.exc = NoException
           /\ Len(last.requests) = k + 1
           /\ \A n \in DOMAIN last.requests :
                 /\ last.requests[n].method = "GET"
                 /\ last.requests[n].url =
                       [origin |-> endpoint[last.api].origin,
                        path |-> <<"v1", CollectionOf(last.op)>>]
                 /\ last.requests[n].auth = <<api_key[last.api], U("")>>
                 /\ last.requests[n].params =
                       IF n = 1 THEN EmptyDict
                       ELSE [offset |-> last.script[n - 1].json.offset
                                        + last.script[n - 1].json.limit,
                             limit |-> last.script[n - 1].json.limit]
           /\ Len(last.ret) = Len(ItemsUpTo(last.script, k))
           /\ \A j \in DOMAIN last.ret :
                 /\ last.ret[j].cls = WrapperOf(last.op)
                 /\ last.ret[j].api = last.api
                 /\ last.ret[j].json_data = ItemsUpTo(last.script, k)[j]

C5_Witness ==
    /\ last.op = "list_customers"
    /\ ServesAllPages(last.script)
    /\ Len(last.script) = 3
    /\ Len(last.requests) = 3
    /\ Len(last.ret) = 3
    /\ last.requests[3].params = [offset |-> 4, limit |-> 2]
    /\ api_key[last.api] = U("PROCESSOR_KEY_2")

\* C6 as stated: reading attribute k of a wrapper with field mapping M
\* returns M[k] for every key k of M, and reading a name that is no key of M
\* raises AttributeError.
C6_EveryKeyReadsItsField ==
    (last.op = "getattr") =>
        LET M == resources[last.self].json_data
            k == last.args.key.v
        IN IF k \in DOMAIN M
           THEN last.attr.exc = NoException /\ last.attr.value = M[k]
           ELSE last.attr.exc.cls = "AttributeError"

\* the names a wrapper answers without consulting its field mapping
OwnAttrs(res) == {"api", "json_data"} \cup ClassAttrs(res.cls)

\* C6 amended: for a wrapper with field mapping M, the names api and
\* json_data and the names its class defines read the wrapper's own
\* attribute; every other key k of M reads M[k]; and every other name that is
\* no key of M raises AttributeError, never a KeyError.
C6_KeysNotShadowedReadTheirField ==
    (last.op = "getattr") =>
        LET res == resources[last.self]
            M == res.json_data
            k == last.args.key.v
        IN /\ (k \in OwnAttrs(res)) =>
                 /\ last.attr.exc = NoException
                 /\ last.attr.via # "__getattr__"
                 /\ (k = "api" => last.attr.value.v = res.api)
           /\ (k \notin OwnAttrs(res) /\ k \in DOMAIN M) =>
                 /\ last.attr.exc = NoException
                 /\ last.attr.value = M[k]
           /\ (k \notin OwnAttrs(res) /\ k \notin DOMAIN M) =>
                 /\ last.attr.exc.cls = "AttributeError"
                 /\ last.exc.cls = "AttributeError"

C6_Witness ==
    /\ last.op = "getattr"
    /\ last.args.key.v = "no_such_thing"
    /\ "guid" \in DOMAIN resources[last.self].json_data
    /\ last.attr.exc.cls = "AttributeError"

\* C7: the request of create_company carries no authentication; every other
\* request, whether the client or a wrapper sends it, carries basic auth
\* whose username is the client's api_key at the moment of the request and
\* whose password is the empty string.
C7_RequestsCarryCurrentCredential ==
    [][\A n \in DOMAIN last'.requests :
          IF last'.op = "create_company"
          THEN last'.requests[n].auth = << >>
          ELSE last'.requests[n].auth = <<api_key[last'.api], U("")>>
      ]_vars

C7_Witness ==
    /\ last.op \in {"create_customer", "create_plan", "subscribe", "unsubscribe"}
    /\ Len(last.requests) = 1
    /\ last.requests[1].auth = <<U("PROCESSOR_KEY_2"), U("")>>
    /\ resources[last.self].api = last.api

\* C8: the form of Company.create_customer holds external_id, and the form
\* of Plan.subscribe holds payment_uri, amount and started_at, exactly when
\* the caller passed a value other than None, and then with the value passed
\* (started_at as its isoformat() text), never None; subscribe's form always
\* holds plan_guid, the guid of the plan it was called on, and customer_guid.
C8_OptionalFieldsOnlyWhenGiven ==
    /\ (last.op = "create_customer") =>
          \A n \in DOMAIN last.requests :
             LET data == last.requests[n].data
             IN /\ ("external_id" \in DOMAIN data) <=> (last.args.external_id.t # "NoneType")
                /\ \A k \in DOMAIN data : k = "external_id" /\ data[k] = last.args.external_id
    /\ (last.op = "subscribe") =>
          \A n \in DOMAIN last.requests :
             LET data == last.requests[n].data
             IN /\ ("payment_uri" \in DOMAIN data) <=> (last.args.payment_uri.t # "NoneType")
                /\ ("amount" \in DOMAIN data) <=> (last.args.amount.t # "NoneType")
                /\ ("started_at" \in DOMAIN data) <=> (last.args.started_at.t # "NoneType")
                /\ ("payment_uri" \in DOMAIN data) => data.payment_uri = last.args.payment_uri
                /\ ("amount" \in DOMAIN data) => data.amount = last.args.amount
                /\ ("started_at" \in DOMAIN data) =>
                      /\ data.started_at.t = "unicode"
                      /\ last.args.started_at.v = "utcnow" =>
                            data.started_at.v = "2013-08-16T00:00:00"
                /\ \A k \in DOMAIN data : data[k].t # "NoneType"
                /\ {"plan_guid", "customer_guid"} \subseteq DOMAIN data
                /\ data.plan_guid = resources[last.self].json_data.guid
                /\ data.customer_guid = last.args.customer_guid

C8_Witness ==
    /\ last.op = "subscribe"
    /\ Len(last.requests) = 1
    /\ DOMAIN last.requests[1].data = {"plan_guid", "customer_guid", "started_at"}
    /\ last.args.payment_uri = None
    /\ last.args.amount = None

\* C9: Subscription.unsubscribe POSTs to /v1/subscriptions/{guid}/cancel
\* with the guid of the wrapper it was called on; the form holds
\* prorated_refund, as the text "1", exactly when prorated_refund is True,
\* and refund_amount, as passed, exactly when refund_amount is truthy (not
\* None, not empty, not zero); with both left at their defaults the form is
\* empty.
C9_UnsubscribeForm ==
    (last.op = "unsubscribe") =>
        \A n \in DOMAIN last.requests :
           LET req == last.requests[n]
               refund == last.args.refund_amount
               truthy == /\ refund.t # "NoneType"
                         /\ ~(refund.t = "unicode" /\ refund.v = "")
                         /\ ~(refund.t = "int" /\ refund.v = "0")
           IN /\ req.method = "POST"
              /\ req.url.path = <<"v1", "subscriptions",
                                  resources[last.self].json_data.guid.v, "cancel">>
              /\ ("prorated_refund" \in DOMAIN req.data) <=>
                    (last.args.prorated_refund = [t |-> "bool", v |-> "True"])
              /\ ("prorated_refund" \in DOMAIN req.data) =>
                    req.data.prorated_refund = [t |-> "unicode", v |-> "1"]
              /\ ("refund_amount" \in DOMAIN req.data) <=> truthy
              /\ ("refund_amount" \in DOMAIN req.data) => req.data.refund_amount = refund
              /\ DOMAIN req.data \subseteq {"prorated_refund", "refund_amount"}
              /\ (last.args.prorated_refund = [t |-> "bool", v |-> "False"]
                  /\ refund.t = "NoneType") => req.data = << >>

C9_Witness ==
    /\ last.op = "unsubscribe"
    /\ Len(last.requests) = 1
    /\ last.args.prorated_refund = True
    /\ last.args.refund_amount = I("0")
    /\ last.requests[1].data = [prorated_refund |-> U("1")]

\* C10: every BillyError raised for a response that is not 200 carries the
\* name of the public operation the caller invoked, and the status code and
\* the raw body of that response.
C10_ErrorNamesInvokedOperation ==
    (last.exc.cls \in {"BillyError", "BillyNotFoundError"}) =>
        LET resp == last.script[Len(last.requests)]
        IN /\ last.exc.method_name = last.op
           /\ last.exc.status_code = resp.status_code
           /\ last.exc.content = resp.content

\* the operations that send a form
PostOps == {"create_company", "create_customer", "create_plan", "subscribe", "unsubscribe"}

\* C11 as stated: BillyNotFoundError is raised only when a get or a list
\* call is answered 404; every other answer that is not 200, a 404 to
\* create_company, create_customer, create_plan, subscribe or unsubscribe
\* included, raises BillyError itself.
C11_NotFoundOnlyForLookups ==
    (Len(last.requests) >= 1) =>
        LET resp == last.script[Len(last.requests)]
        IN /\ (last.exc.cls = "BillyNotFoundError") =>
                 (last.op \in GetOps \cup ListOps /\ resp.status_code = 404)
           /\ (resp.status_code # 200 /\ last.op \in PostOps) => last.exc.cls = "BillyError"

\* C11 amended: BillyNotFoundError is raised exactly when a call is
\* answered 404, whichever call it is (create_company, create_customer,
\* create_plan, subscribe and unsubscribe included); every other answer that
\* is not 200 raises BillyError itself, and a 200 raises nothing.
C11_NotFoundForEvery404 ==
    (Len(last.requests) >= 1) =>
        LET resp == last.script[Len(last.requests)]
        IN /\ (last.exc.cls = "BillyNotFoundError") <=> (resp.status_code = 404)
           /\ (resp.status_code \notin {200, 404}) => last.exc.cls = "BillyError"
           /\ (resp.status_code = 200) => last.exc.cls = "none"

C11_Witness ==
    /\ last.op = "unsubscribe"
    /\ Len(last.requests) = 1
    /\ last.script[1].status_code = 404
    /\ last.exc.cls = "BillyNotFoundError"
    /\ last.exc.method_name = "unsubscribe"

\* the operations that are not listings
SingleOps == PostOps \cup GetOps

\* the call was made on a wrapper whose mapping has no guid to read
SelfHasNoGuid ==
    /\ last.op \in {"subscribe", "unsubscribe"}
    /\ "guid" \notin DOMAIN resources[last.self].json_data

\* C12 as stated: create_company, the four gets, create_customer,
\* create_plan, subscribe and unsubscribe send exactly one request per call,
\* whether it succeeds or fails; a failure is raised as an error and returns
\* no wrapper.
C12_ExactlyOneRequest ==
    (last.op \in SingleOps) =>
        /\ Len(last.requests) = 1
        /\ (last.script[1].status_code # 200) =>
              (last.exc.cls \in {"BillyError", "BillyNotFoundError"} /\ last.ret = << >>)

\* C12 amended: each of these operations sends at most one request per
\* call, and exactly one unless subscribe or unsubscribe is called on a
\* wrapper whose mapping has no guid: that call raises AttributeError before
\* anything is sent.  With one request sent, an answer that is not 200 raises
\* a BillyError and returns no wrapper, a 200 returns exactly one wrapper,
\* and nothing is sent again.
C12_AtMostOneRequest ==
    (last.op \in SingleOps) =>
        /\ Len(last.requests) <= 1
        /\ (Len(last.requests) = 0) <=> SelfHasNoGuid
        /\ (Len(last.requests) = 0) =>
              /\ last.exc.cls = "AttributeError"
              /\ last.ret = << >>
        /\ (Len(last.requests) = 1) =>
              /\ Len(last.script) = 1
              /\ (last.script[1].status_code # 200) =>
                    /\ last.exc.cls \in {"BillyError", "BillyNotFoundError"}
                    /\ last.ret = << >>
              /\ (last.script[1].status_code = 200) =>
                    /\ last.exc.cls = "none"
                    /\ Len(last.ret) = 1

C12_Witness ==
    /\ last.op = "get_customer"
    /\ Len(last.requests) = 1
    /\ last.script[1].status_code = 503
    /\ last.exc.cls = "BillyError"
    /\ last.ret = << >>

\* C13: the client's api_key changes only in a step that is a create_company
\* answered 200; a create_company answered otherwise, and every get,
\* create_customer, create_plan, subscribe and unsubscribe call, successful
\* or failed, leaves it as it was; and no step changes the endpoint.
C13_OnlyCreateCompanyChangesCredential ==
    [][/\ (api_key' # api_key) =>
              /\ last'.op = "create_company"
              /\ last'.script[1].status_code = 200
              /\ last'.exc.cls = "none"
       /\ (last'.op = "create_company" /\ last'.script[1].status_code # 200) =>
              api_key' = api_key
       /\ (last'.op \in (SingleOps \ {"create_company"})) => api_key' = api_key
       /\ endpoint' = endpoint
      ]_vars

C13_Witness ==
    /\ last.op = "create_company"
    /\ last.script[1].status_code = 503
    /\ last.args.processor_key = U("PROCESSOR_KEY_2")
    /\ api_key[last.api] = U("MOCK_PROCESSOR_KEY")

\* C14: no operation changes a wrapper once it is built: every wrapper the
\* caller holds keeps its class, its client and its field mapping through
\* every step.  In particular a successful unsubscribe returns a new
\* Subscription built from the response and leaves the Subscription it was
\* called on as it was, and create_customer, create_plan and subscribe leave
\* the Company or Plan they were called on as it was.
C14_WrappersNeverChange ==
    [][/\ \A i \in DOMAIN resources :
             /\ i \in DOMAIN resources'
             /\ resources'[i] = resources[i]
       /\ (last'.op = "unsubscribe" /\ last'.exc.cls = "none") =>
             /\ Len(last'.ret) = 1
             /\ last'.ret[1].cls = "Subscription"
             /\ last'.ret[1].json_data = last'.script[1].json
             /\ resources'[last'.self].json_data = resources[last'.self].json_data
       /\ (last'.op \in {"create_customer", "create_plan", "subscribe"}) =>
             resources'[last'.self].json_data = resources[last'.self].json_data
      ]_vars

C14_Witness ==
    /\ last.op = "unsubscribe"
    /\ last.exc.cls = "none"
    /\ Len(last.ret) = 1
    /\ last.ret[1].json_data # resources[last.self].json_data
    /\ "canceled" \in DOMAIN resources[last.self].json_data

====
